---- MODULE Spec2Model ----
(***************************************************************************)
(* Model of libs/modeling/backbones.py: the construction and the forward  *)
(* pass of ConvTransformerBackbone and ConvBackbone.                      *)
(*                                                                         *)
(* A tensor is modelled by its time axis: a sequence whose i-th entry is   *)
(* the position (1-based) of the current pyramid level that the i-th time  *)
(* step stands for.  A mask is modelled the same way.  The channel axis of *)
(* the input is modelled separately (xch) for the multi-stream projection. *)
(* Values of the learned weights are not modelled.                         *)
(***************************************************************************)
EXTENDS Integers, Sequences, FiniteSets, TLC

\* ---------------------------------------------------------------- bounds
MaxT == 8          \* longest input time length
MaxStage == 3      \* largest entry of an architecture tuple
MaxScale == 3      \* largest scale_factor

\* ------------------------------------------------------ program constants
LongMemSlots == 192
LongQuerySlots == LongMemSlots \div 2

\* ---------------------------------------------------------------- helpers
Min(a, b) == IF a < b THEN a ELSE b

RECURSIVE Sum(_)
Sum(s) == IF s = <<>> THEN 0 ELSE Head(s) + Sum(Tail(s))

RECURSIVE Cat(_)
\* torch.cat of a list of sequences along the modelled axis
Cat(ss) == IF ss = <<>> THEN <<>> ELSE Head(ss) \o Cat(Tail(ss))

\* Python slice s[a:b] (0-based, half open, clamped to the length)
Slice(s, a, b) == SubSeq(s, Min(a, Len(s)) + 1, Min(b, Len(s)))

\* a fresh time axis of length n
Axis(n) == [i \in 1..n |-> i]

\* the width argument of a constructor: a scalar or a list
Scalar(w) == [isList |-> FALSE, v |-> <<w>>]
List(ws) == [isList |-> TRUE, v |-> ws]

\* -------------------------------------------- external blocks (blocks.py)
\* Each returns <<feature, mask>>; the mask it returns has the time length
\* of the feature it returns.
MaskedConv1D(x, mask, stride) ==
    LET out == Axis(Len(x) \div stride) IN <<out, out>>

ConvBlock(x, mask, stride) ==
    LET out == Axis(Len(x) \div stride) IN <<out, out>>

TransformerBlock(x, mask, stride) ==
    LET out == Axis(Len(x) \div stride) IN <<out, out>>

\* cross attention: one output step per query step, in the query's order
AggregationBlock(q, q_mask, kv, kv_mask) == <<q, q>>

\* F.interpolate(pe, T, mode='linear', align_corners=False): output step i
\* (1-based) reads the source coordinate max(0, (i - 0.5) * L / T - 0.5);
\* the entry kept here is the source step to the left of that coordinate.
Interpolate(pe, T) ==
    LET L == Len(pe)
        left(i) == LET num == (2 * i - 1) * L - T
                   IN IF num < 0 THEN 0 ELSE Min(L - 1, num \div (2 * T))
    IN [i \in 1..T |-> pe[left(i) + 1]]

\* ------------------------------------------------------------ construction
\* assert len(arch) == 3
ArchOK(arch) == Len(arch) = 3

WinOKNoCheck(arch, mha_win_size) == TRUE
\* assert len(mha_win_size) == (1 + arch[2])
WinOK(arch, mha_win_size) == Len(mha_win_size) = 1 + arch[3]

\* assert isinstance(n_embd, (list, tuple)) and len(n_in) == len(n_embd)
ProjOK(n_in, n_embd) ==
    n_in.isList => (n_embd.isList /\ Len(n_in.v) = Len(n_embd.v))

\* [MaskedConv1D(c0, c1, 1) for c0, c1 in zip(n_in, n_embd)], or None
MakeProj(n_in, n_embd) ==
    IF n_in.isList
    THEN [j \in 1..Min(Len(n_in.v), Len(n_embd.v)) |-> <<n_in.v[j], n_embd.v[j]>>]
    ELSE <<>>

\* n_in = n_embd = sum(n_embd) in multi-stream mode
EmbdWidth(n_in, n_embd) == IF n_in.isList THEN Sum(n_embd.v) ELSE n_embd.v[1]

InWidth(n_in, n_embd) == IF n_in.isList THEN Sum(n_embd.v) ELSE n_in.v[1]

CTBranchStridesFixed(arch, scale_factor) == [i \in 1..arch[3] |-> 2]
\* the query stride n_ds_strides[0] of each of the arch[2] TransformerBlocks
CTBranchStrides(arch, scale_factor) == [i \in 1..arch[3] |-> scale_factor]

CVBranchStridesFixed(arch, scale_factor) == [i \in 1..arch[3] |-> 1]
\* the stride of each of the arch[2] branch ConvBlocks
CVBranchStrides(arch, scale_factor) == [i \in 1..arch[3] |-> scale_factor]

\* the stride of each of the arch[1] stem ConvBlocks
CVStemStrides(arch) == [i \in 1..arch[2] |-> 1]

\* the (in, out, stride) of each of the arch[0] embedding convolutions
CVEmbd(arch, n_in, n_embd) ==
    [i \in 1..arch[1] |-> <<IF i > 1 THEN n_embd ELSE n_in, n_embd, 1>>]

NoModule ==
    [cls |-> "none", n_in |-> Scalar(0), arch |-> <<>>, max_len |-> 0,
     scale_factor |-> 0, use_abs_pe |-> FALSE, hasProj |-> FALSE, proj |-> <<>>,
     embd_in |-> 0, n_embd |-> 0, embd |-> <<>>, pos_embd |-> <<>>,
     stem |-> <<>>, long_attn |-> 0, branch |-> <<>>,
     long_mem |-> <<>>, long_query |-> <<>>]

NewConvTransformer(n_in, n_embd, max_len, arch, scale_factor, use_abs_pe) ==
    [cls |-> "convTransformer", n_in |-> n_in, arch |-> arch, max_len |-> max_len,
     scale_factor |-> scale_factor, use_abs_pe |-> use_abs_pe,
     hasProj |-> n_in.isList, proj |-> MakeProj(n_in, n_embd),
     embd_in |-> InWidth(n_in, n_embd), n_embd |-> EmbdWidth(n_in, n_embd),
     embd |-> << <<InWidth(n_in, n_embd), EmbdWidth(n_in, n_embd), 1>> >>,
     pos_embd |-> IF use_abs_pe THEN Axis(max_len) ELSE <<>>,
     stem |-> [i \in 1..arch[3] |-> 1], long_attn |-> arch[2],
     branch |-> CTBranchStrides(arch, scale_factor),
     long_mem |-> Axis(LongMemSlots), long_query |-> Axis(LongQuerySlots)]

NewConv(n_in, n_embd, arch, scale_factor) ==
    [cls |-> "conv", n_in |-> n_in, arch |-> arch, max_len |-> 0,
     scale_factor |-> scale_factor, use_abs_pe |-> FALSE,
     hasProj |-> n_in.isList, proj |-> MakeProj(n_in, n_embd),
     embd_in |-> InWidth(n_in, n_embd), n_embd |-> EmbdWidth(n_in, n_embd),
     embd |-> CVEmbd(arch, InWidth(n_in, n_embd), EmbdWidth(n_in, n_embd)),
     pos_embd |-> <<>>,
     stem |-> CVStemStrides(arch), long_attn |-> 0,
     branch |-> CVBranchStrides(arch, scale_factor),
     long_mem |-> <<>>, long_query |-> <<>>]

\* ------------------------------------------------------------------ inputs
ArchSet ==
    {<<a, b, c>> : a \in 1..MaxStage, b \in 0..MaxStage, c \in 0..MaxStage}
        \cup {<<2, 2>>, <<2, 2, 1, 1>>}
WinSizes == {[i \in 1..n |-> -1] : n \in 0..(MaxStage + 1)}
WidthsIn == {Scalar(2), List(<<1, 2>>)}
WidthsEmbd == {Scalar(2), List(<<2, 2>>), List(<<4>>)}
MaxLens == {2, 4}
Scales == 1..MaxScale
\* every short length, and the length of the documented end-to-end scenario
Lengths == (1..MaxT) \cup {32}

NoArgs ==
    [cls |-> "none", arch |-> <<>>, mha_win_size |-> <<>>, n_in |-> Scalar(0),
     n_embd |-> Scalar(0), max_len |-> 0, scale_factor |-> 0, use_abs_pe |-> FALSE]

\* ------------------------------------------------------------------- state
VARIABLES
    pc,          \* position of the program: construction, then forward
    args,        \* the constructor's arguments
    self,        \* the constructed module (NoModule before / on abort)
    training,    \* self.training
    T,           \* T of B, C, T = x.size()
    xch,         \* channel axis of x up to the embedding
    x, mask,     \* time axis of the current feature and of the current mask
    f2, f2_mask, \* second auxiliary embedding
    emp_q2, long_mask2,   \* long-memory summary
    pe, pe_add,  \* positional table chosen, and the slice added to x
    t,           \* t of b, n, t = x.shape in the branch loop
    xs, ms,      \* x1..x4 and x1_mask..x4_mask
    idx,         \* loop index (0-based)
    calls,       \* cross-attention calls of the current stage
    out_feats, out_masks,
    err          \* the exception raised, "" if none

vars == <<pc, args, self, training, T, xch, x, mask, f2, f2_mask, emp_q2,
          long_mask2, pe, pe_add, t, xs, ms, idx, calls, out_feats, out_masks, err>>

fwdvars == <<training, T, xch, x, mask, f2, f2_mask, emp_q2, long_mask2, pe,
             pe_add, t, xs, ms, idx, calls, out_feats, out_masks>>

Init ==
    /\ pc = "new" /\ args = NoArgs /\ self = NoModule
    /\ training = FALSE /\ T = 0 /\ xch = <<>> /\ x = <<>> /\ mask = <<>>
    /\ f2 = <<>> /\ f2_mask = <<>> /\ emp_q2 = <<>> /\ long_mask2 = <<>>
    /\ pe = <<>> /\ pe_add = <<>> /\ t = 0 /\ xs = <<>> /\ ms = <<>>
    /\ idx = 0 /\ calls = <<>> /\ out_feats = <<>> /\ out_masks = <<>>
    /\ err = ""

\* ------------------------------------------------- ConvTransformerBackbone
ConstructConvTransformer ==
    /\ pc = "new"
    /\ \E arch \in ArchSet, win \in WinSizes, n_in \in WidthsIn,
          n_embd \in WidthsEmbd, max_len \in MaxLens, sf \in Scales,
          abs_pe \in BOOLEAN :
        /\ n_in.isList \/ ~n_embd.isList
        /\ args' = [cls |-> "convTransformer", arch |-> arch, mha_win_size |-> win,
                    n_in |-> n_in, n_embd |-> n_embd, max_len |-> max_len,
                    scale_factor |-> sf, use_abs_pe |-> abs_pe]
        /\ IF ArchOK(arch) /\ WinOK(arch, win) /\ ProjOK(n_in, n_embd)
           THEN /\ self' = NewConvTransformer(n_in, n_embd, max_len, arch, sf, abs_pe)
                /\ pc' = "ready" /\ err' = ""
           ELSE /\ self' = NoModule
                /\ pc' = "aborted" /\ err' = "AssertionError"
    /\ UNCHANGED fwdvars

\* torch.Tensor.split(sizes, dim=1): consecutive chunks of the given sizes
SplitEqual(s, sizes) ==
    [j \in 1..Len(sizes) |->
        Slice(s, (j - 1) * (Len(s) \div Len(sizes)), j * (Len(s) \div Len(sizes)))]
Split(s, sizes) ==
    [j \in 1..Len(sizes) |->
        Slice(s, Sum(SubSeq(sizes, 1, j - 1)), Sum(SubSeq(sizes, 1, j)))]

\* torch.cat([proj(s, mask)[0] for proj, s in zip(self.proj, chunks)], dim=1):
\* every output channel of the j-th projection reads the j-th chunk only
ProjectStreams(proj, chunks) ==
    Cat([j \in 1..Min(Len(proj), Len(chunks)) |->
            [k \in 1..proj[j][2] |->
                [proj |-> j, src |-> [i \in 1..Len(chunks[j]) |-> chunks[j][i].src[1]]]]])

InputChannels(C) == [k \in 1..C |-> [proj |-> 0, src |-> <<k>>]]

\* the projection of forward, on the channel axis
Projected(m, ch) ==
    IF m.n_in.isList THEN ProjectStreams(m.proj, Split(ch, m.n_in.v)) ELSE ch

CT_Begin ==
    /\ pc = "ready" /\ self.cls = "convTransformer"
    /\ \E len \in Lengths, tr \in BOOLEAN :
        /\ T' = len /\ training' = tr
        /\ x' = Axis(len) /\ mask' = Axis(len)
        /\ xch' = InputChannels(Sum(self.n_in.v))
    /\ pc' = "proj"
    /\ UNCHANGED <<args, self, f2, f2_mask, emp_q2, long_mask2, pe, pe_add, t,
                   xs, ms, idx, calls, out_feats, out_masks, err>>

CT_Project ==
    /\ pc = "proj" /\ self.cls = "convTransformer"
    /\ xch' = Projected(self, xch)
    /\ x' = IF self.n_in.isList THEN MaskedConv1D(x, mask, 1)[1] ELSE x
    /\ pc' = "longmem"
    /\ UNCHANGED <<args, self, training, T, mask, f2, f2_mask, emp_q2, long_mask2,
                   pe, pe_add, t, xs, ms, idx, calls, out_feats, out_masks, err>>

\* lines 173-187; the result is <<emp_q2, long_mask2, f2, f2_mask>>
LongMemory(m, xx, mm) ==
    LET f == MaskedConv1D(xx, mm, 1)
        q1 == AggregationBlock(m.long_mem, Axis(LongMemSlots), f[1], f[2])
        q2 == AggregationBlock(m.long_query, Axis(LongQuerySlots), q1[1], q1[2])
        g == MaskedConv1D(xx, mm, 1)
    IN <<q2[1], q2[2], g[1], g[2]>>

CT_LongMemory ==
    /\ pc = "longmem" /\ self.cls = "convTransformer"
    /\ IF self.long_attn < 2
       THEN /\ pc' = "failed" /\ err' = "IndexError"
            /\ UNCHANGED <<emp_q2, long_mask2, f2, f2_mask>>
       ELSE /\ emp_q2' = LongMemory(self, x, mask)[1]
            /\ long_mask2' = LongMemory(self, x, mask)[2]
            /\ f2' = LongMemory(self, x, mask)[3]
            /\ f2_mask' = LongMemory(self, x, mask)[4]
            /\ pc' = "embd" /\ err' = err
    /\ UNCHANGED <<args, self, training, T, xch, x, mask, pe, pe_add, t, xs, ms,
                   idx, calls, out_feats, out_masks>>

CT_Embed ==
    /\ pc = "embd" /\ self.cls = "convTransformer"
    /\ x' = MaskedConv1D(x, mask, self.embd[1][3])[1]
    /\ mask' = MaskedConv1D(x, mask, self.embd[1][3])[2]
    /\ pc' = "posenc"
    /\ UNCHANGED <<args, self, training, T, xch, f2, f2_mask, emp_q2, long_mask2,
                   pe, pe_add, t, xs, ms, idx, calls, out_feats, out_masks, err>>

\* assert T <= self.max_len, "Reached max length."
LengthCheckFails(m, tr, len) == m.use_abs_pe /\ tr /\ ~(len <= m.max_len)

PosEmbdNoInterp(m, tr, len) == m.pos_embd
\* the table pe that forward slices: lines 197 and 203-207
PosEmbd(m, tr, len) ==
    IF tr THEN m.pos_embd
    ELSE IF len >= m.max_len THEN Interpolate(m.pos_embd, len) ELSE m.pos_embd

\* broadcasting of the time axis in x + pe[:, :, :T] * mask
Broadcasts(a, b) == Len(a) = Len(b) \/ Len(a) = 1 \/ Len(b) = 1
Broadcast(a, b) == IF Len(a) >= Len(b) THEN a ELSE Axis(Len(b))

CT_PosEnc ==
    /\ pc = "posenc" /\ self.cls = "convTransformer"
    /\ IF ~self.use_abs_pe
       THEN /\ pc' = "prep" /\ UNCHANGED <<x, pe, pe_add, err>>
       ELSE IF LengthCheckFails(self, training, T)
       THEN /\ pc' = "failed" /\ err' = "Reached max length."
            /\ UNCHANGED <<x, pe, pe_add>>
       ELSE LET table == PosEmbd(self, training, T)
                add == Slice(table, 0, T)
            IN /\ pe' = table /\ pe_add' = add
               /\ IF Broadcasts(add, mask) /\ Broadcasts(x, Broadcast(add, mask))
                  THEN /\ x' = Broadcast(x, Broadcast(add, mask))
                       /\ pc' = "prep" /\ err' = err
                  ELSE /\ x' = x /\ pc' = "failed" /\ err' = "RuntimeError"
    /\ UNCHANGED <<args, self, training, T, xch, mask, f2, f2_mask, emp_q2,
                   long_mask2, t, xs, ms, idx, calls, out_feats, out_masks>>

CT_Prep ==
    /\ pc = "prep" /\ self.cls = "convTransformer"
    /\ out_feats' = <<x>> /\ out_masks' = <<mask>>
    /\ idx' = 0
    /\ pc' = "loop"
    /\ UNCHANGED <<args, self, training, T, xch, x, mask, f2, f2_mask, emp_q2,
                   long_mask2, pe, pe_add, t, xs, ms, calls, err>>

CT_Branch ==
    /\ pc = "loop" /\ self.cls = "convTransformer"
    /\ idx < Len(self.branch)
    /\ x' = TransformerBlock(x, mask, self.branch[idx + 1])[1]
    /\ mask' = TransformerBlock(x, mask, self.branch[idx + 1])[2]
    /\ t' = Len(x')
    /\ calls' = <<>>
    /\ pc' = "split"
    /\ UNCHANGED <<args, self, training, T, xch, f2, f2_mask, emp_q2, long_mask2,
                   pe, pe_add, xs, ms, idx, out_feats, out_masks, err>>

SplitQuarters(s, len_term) ==
    <<Slice(s, 0, len_term), Slice(s, len_term, len_term * 2),
      Slice(s, len_term * 2, len_term * 3), Slice(s, len_term * 3, len_term * 4)>>
\* x1, x2, x3, x4 of line 228
SplitFeat(s, len_term) ==
    <<Slice(s, 0, len_term), Slice(s, len_term, len_term * 2),
      Slice(s, len_term * 2, len_term * 3), Slice(s, len_term * 3, Len(s))>>

SplitMaskShort(s, len_term) ==
    <<Slice(s, 0, len_term), Slice(s, len_term, len_term * 2),
      Slice(s, len_term * 2, len_term * 3), Slice(s, len_term * 3, len_term * 4)>>
\* x1_mask, x2_mask, x3_mask, x4_mask of line 227
SplitMask(s, len_term) ==
    <<Slice(s, 0, len_term), Slice(s, len_term, len_term * 2),
      Slice(s, len_term * 2, len_term * 3), Slice(s, len_term * 3, Len(s))>>

CT_Split ==
    /\ pc = "split" /\ self.cls = "convTransformer"
    /\ LET len_term == t \div 4
       IN /\ ms' = SplitMask(mask, len_term)
          /\ xs' = SplitFeat(x, len_term)
    /\ pc' = "stem"
    /\ UNCHANGED <<args, self, training, T, xch, x, mask, f2, f2_mask, emp_q2,
                   long_mask2, pe, pe_add, t, idx, calls, out_feats, out_masks, err>>

CT_Stem ==
    /\ pc = "stem" /\ self.cls = "convTransformer"
    /\ idx < Len(self.stem)
    /\ xs' = [j \in 1..4 |-> AggregationBlock(xs[j], ms[j], f2, f2_mask)[1]]
    /\ ms' = [j \in 1..4 |-> AggregationBlock(xs[j], ms[j], f2, f2_mask)[2]]
    /\ calls' = [j \in 1..4 |->
                    [block |-> "stem", i |-> idx, kv |-> f2, kv_mask |-> f2_mask]]
    /\ pc' = "cat"
    /\ UNCHANGED <<args, self, training, T, xch, x, mask, f2, f2_mask, emp_q2,
                   long_mask2, pe, pe_add, t, idx, out_feats, out_masks, err>>

CT_Cat ==
    /\ pc = "cat" /\ self.cls = "convTransformer"
    /\ x' = Cat(xs) /\ mask' = Cat(ms)
    /\ pc' = "convblock"
    /\ UNCHANGED <<args, self, training, T, xch, f2, f2_mask, emp_q2, long_mask2,
                   pe, pe_add, t, xs, ms, idx, calls, out_feats, out_masks, err>>

CT_ConvBlock ==
    /\ pc = "convblock" /\ self.cls = "convTransformer"
    /\ x' = ConvBlock(x, mask, 1)[1]
    /\ mask' = ConvBlock(x, mask, 1)[2]
    /\ pc' = "aggr"
    /\ UNCHANGED <<args, self, training, T, xch, f2, f2_mask, emp_q2, long_mask2,
                   pe, pe_add, t, xs, ms, idx, calls, out_feats, out_masks, err>>

AggrStepRefine(xx, mm, q, qm) ==
    LET r == AggregationBlock(xx, mm, q, qm) IN <<r[1], r[2], r[1], r[2]>>
\* line 238; the result is <<x, mask, emp_q2, long_mask2>> after the line
AggrStep(xx, mm, q, qm) ==
    LET r == AggregationBlock(xx, mm, q, qm) IN <<r[1], r[2], q, qm>>

CT_Aggr ==
    /\ pc = "aggr" /\ self.cls = "convTransformer"
    /\ x' = AggrStep(x, mask, emp_q2, long_mask2)[1]
    /\ mask' = AggrStep(x, mask, emp_q2, long_mask2)[2]
    /\ emp_q2' = AggrStep(x, mask, emp_q2, long_mask2)[3]
    /\ long_mask2' = AggrStep(x, mask, emp_q2, long_mask2)[4]
    /\ calls' = Append(calls, [block |-> "aggr", i |-> idx, kv |-> emp_q2,
                               kv_mask |-> long_mask2])
    /\ pc' = "emit"
    /\ UNCHANGED <<args, self, training, T, xch, f2, f2_mask, pe, pe_add, t, xs,
                   ms, idx, out_feats, out_masks, err>>

EmitReplace(outs, v) == <<v>>
\* out_feats += (x, ) and out_masks += (mask, )
Emit(outs, v) == Append(outs, v)

CT_Emit ==
    /\ pc = "emit" /\ self.cls = "convTransformer"
    /\ out_feats' = Emit(out_feats, x)
    /\ out_masks' = Emit(out_masks, mask)
    /\ idx' = idx + 1
    /\ pc' = "loop"
    /\ UNCHANGED <<args, self, training, T, xch, x, mask, f2, f2_mask, emp_q2,
                   long_mask2, pe, pe_add, t, xs, ms, calls, err>>

CT_Return ==
    /\ pc = "loop" /\ self.cls = "convTransformer"
    /\ ~(idx < Len(self.branch))
    /\ pc' = "done"
    /\ UNCHANGED <<args, self, fwdvars, err>>

\* ------------------------------------------------------------ ConvBackbone
ConstructConv ==
    /\ pc = "new"
    /\ \E arch \in ArchSet, n_in \in WidthsIn, n_embd \in WidthsEmbd, sf \in Scales :
        /\ n_in.isList \/ ~n_embd.isList
        /\ args' = [cls |-> "conv", arch |-> arch, mha_win_size |-> <<>>,
                    n_in |-> n_in, n_embd |-> n_embd, max_len |-> 0,
                    scale_factor |-> sf, use_abs_pe |-> FALSE]
        /\ IF ArchOK(arch) /\ ProjOK(n_in, n_embd)
           THEN /\ self' = NewConv(n_in, n_embd, arch, sf)
                /\ pc' = "ready" /\ err' = ""
           ELSE /\ self' = NoModule
                /\ pc' = "aborted" /\ err' = "AssertionError"
    /\ UNCHANGED fwdvars

CV_Begin ==
    /\ pc = "ready" /\ self.cls = "conv"
    /\ \E len \in Lengths :
        /\ T' = len
        /\ x' = Axis(len) /\ mask' = Axis(len)
        /\ xch' = InputChannels(Sum(self.n_in.v))
    /\ pc' = "proj"
    /\ UNCHANGED <<args, self, training, f2, f2_mask, emp_q2, long_mask2, pe,
                   pe_add, t, xs, ms, idx, calls, out_feats, out_masks, err>>

CV_Project ==
    /\ pc = "proj" /\ self.cls = "conv"
    /\ xch' = Projected(self, xch)
    /\ x' = IF self.n_in.isList THEN MaskedConv1D(x, mask, 1)[1] ELSE x
    /\ pc' = "embd"
    /\ UNCHANGED <<args, self, training, T, mask, f2, f2_mask, emp_q2, long_mask2,
                   pe, pe_add, t, xs, ms, idx, calls, out_feats, out_masks, err>>

RECURSIVE EmbdLoop(_, _)
\* for idx in range(len(self.embd)): x, mask = self.embd[idx](x, mask); ...
EmbdLoop(xm, convs) ==
    IF convs = <<>> THEN xm
    ELSE EmbdLoop(MaskedConv1D(xm[1], xm[2], Head(convs)[3]), Tail(convs))

RECURSIVE StemLoop(_, _)
\* for idx in range(len(self.stem)): x, mask = self.stem[idx](x, mask)
StemLoop(xm, strides) ==
    IF strides = <<>> THEN xm
    ELSE StemLoop(ConvBlock(xm[1], xm[2], Head(strides)), Tail(strides))

CV_Embed ==
    /\ pc = "embd" /\ self.cls = "conv"
    /\ x' = EmbdLoop(<<x, mask>>, self.embd)[1]
    /\ mask' = EmbdLoop(<<x, mask>>, self.embd)[2]
    /\ pc' = "stemloop"
    /\ UNCHANGED <<args, self, training, T, xch, f2, f2_mask, emp_q2, long_mask2,
                   pe, pe_add, t, xs, ms, idx, calls, out_feats, out_masks, err>>

CV_Stem ==
    /\ pc = "stemloop" /\ self.cls = "conv"
    /\ x' = StemLoop(<<x, mask>>, self.stem)[1]
    /\ mask' = StemLoop(<<x, mask>>, self.stem)[2]
    /\ pc' = "prep"
    /\ UNCHANGED <<args, self, training, T, xch, f2, f2_mask, emp_q2, long_mask2,
                   pe, pe_add, t, xs, ms, idx, calls, out_feats, out_masks, err>>

CV_Prep ==
    /\ pc = "prep" /\ self.cls = "conv"
    /\ out_feats' = <<x>> /\ out_masks' = <<mask>>
    /\ idx' = 0
    /\ pc' = "loop"
    /\ UNCHANGED <<args, self, training, T, xch, x, mask, f2, f2_mask, emp_q2,
                   long_mask2, pe, pe_add, t, xs, ms, calls, err>>

CV_Branch ==
    /\ pc = "loop" /\ self.cls = "conv"
    /\ idx < Len(self.branch)
    /\ x' = ConvBlock(x, mask, self.branch[idx + 1])[1]
    /\ mask' = ConvBlock(x, mask, self.branch[idx + 1])[2]
    /\ out_feats' = Emit(out_feats, x')
    /\ out_masks' = Emit(out_masks, mask')
    /\ idx' = idx + 1
    /\ UNCHANGED <<pc, args, self, training, T, xch, f2, f2_mask, emp_q2,
                   long_mask2, pe, pe_add, t, xs, ms, calls, err>>

CV_Return ==
    /\ pc = "loop" /\ self.cls = "conv"
    /\ ~(idx < Len(self.branch))
    /\ pc' = "done"
    /\ UNCHANGED <<args, self, fwdvars, err>>

Next ==
    \/ ConstructConvTransformer
    \/ CT_Begin \/ CT_Project \/ CT_LongMemory \/ CT_Embed \/ CT_PosEnc \/ CT_Prep
    \/ CT_Branch \/ CT_Split \/ CT_Stem \/ CT_Cat \/ CT_ConvBlock \/ CT_Aggr
    \/ CT_Emit \/ CT_Return
    \/ ConstructConv
    \/ CV_Begin \/ CV_Project \/ CV_Embed \/ CV_Stem \/ CV_Prep \/ CV_Branch
    \/ CV_Return

Spec == Init /\ [][Next]_vars

\* ================================================================= claims
CT == self.cls = "convTransformer"
CV == self.cls = "conv"
StagePcs == {"split", "stem", "cat", "convblock", "aggr", "emit"}
PastPosEnc == {"prep", "loop", "done"} \cup StagePcs
PastLongMem == {"embd", "posenc"} \cup PastPosEnc
PastProject == {"longmem", "embd", "stemloop", "failed"} \cup PastLongMem
InForward == {"proj"} \cup PastProject

\* C1: every forward call that returns yields arch[2] + 1 features and
\* arch[2] + 1 masks: one recorded before the branch loop and one appended per
\* completed branch stage, in stage order.
C1_PyramidLevels ==
    /\ pc = "done" =>
          /\ Len(out_feats) = self.arch[3] + 1
          /\ Len(out_masks) = self.arch[3] + 1
    /\ pc \in {"loop", "done"} \cup StagePcs =>
          /\ Len(out_feats) = idx + 1
          /\ Len(out_masks) = idx + 1
          /\ idx <= self.arch[3]

C1_Witness ==
    /\ pc = "done" /\ CT /\ self.arch[3] = 2
    /\ Len(out_feats) = 3 /\ Len(out_masks) = 3

\* C2: at every point of forward the current mask has the time length of the
\* current feature, the four segments pair a feature and a mask of equal
\* length, and every emitted level pairs a feature and a mask of equal length.
C2_MaskMatchesFeature ==
    /\ pc \in InForward => Len(mask) = Len(x)
    /\ pc \in {"stem", "cat"} => \A j \in 1..4 : Len(ms[j]) = Len(xs[j])
    /\ Len(out_masks) = Len(out_feats)
    /\ \A i \in 1..Len(out_feats) : Len(out_masks[i]) = Len(out_feats[i])

C2_Witness ==
    /\ pc = "convblock" /\ CT /\ t = 5
    /\ Len(x) = 5 /\ Len(mask) = 5 /\ Len(xs[4]) = 2 /\ Len(ms[4]) = 2

\* C3: in ConvBackbone the embedding convolutions and the stem blocks run at
\* stride 1, so level 0 has the input's length T, and each branch block runs
\* at stride scale_factor, so level i has the length of level i-1 divided by
\* scale_factor; arch (2,2,3), scale_factor 2, T = 32 gives 32, 16, 8, 4.
C3_ConvLevelLengths ==
    (CV /\ pc \in {"loop", "done"}) =>
        /\ \A i \in 1..Len(self.embd) : self.embd[i][3] = 1
        /\ \A i \in 1..Len(self.stem) : self.stem[i] = 1
        /\ Len(self.embd) = self.arch[1] /\ Len(self.stem) = self.arch[2]
        /\ Len(out_feats[1]) = T
        /\ \A i \in 2..Len(out_feats) :
              Len(out_feats[i]) = Len(out_feats[i - 1]) \div self.scale_factor
        /\ (pc = "done" /\ self.arch = <<2, 2, 3>> /\ self.scale_factor = 2 /\ T = 32)
              => <<Len(out_feats[1]), Len(out_feats[2]), Len(out_feats[3]),
                   Len(out_feats[4])>> = <<32, 16, 8, 4>>

C3_Witness ==
    /\ pc = "done" /\ CV /\ self.arch = <<2, 2, 3>> /\ self.scale_factor = 2
    /\ T = 32 /\ Len(out_feats) = 4 /\ Len(out_feats[4]) = 4

\* C4 as stated: in ConvTransformerBackbone level 0 has length T and every
\* level i >= 1 has the length of level i-1 halved, whatever scale_factor is.
C4_Halved ==
    (CT /\ pc \in {"loop", "done"}) =>
        /\ Len(out_feats[1]) = T
        /\ \A i \in 2..Len(out_feats) :
              Len(out_feats[i]) = Len(out_feats[i - 1]) \div 2

\* C4 amended: level 0 has length T and every level i >= 1 has the length of
\* level i-1 divided by scale_factor; the split, the segment attention, the
\* concatenation, the convolution block and the aggregation keep the length t
\* that the stage's transformer block produced.
C4_DividedByScale ==
    /\ (CT /\ pc \in {"loop", "done"} \cup StagePcs) =>
          /\ Len(out_feats[1]) = T
          /\ \A i \in 2..Len(out_feats) :
                Len(out_feats[i]) = Len(out_feats[i - 1]) \div self.scale_factor
    /\ (CT /\ pc \in StagePcs) =>
          /\ Len(x) = t
          /\ t = Len(out_feats[Len(out_feats)]) \div self.scale_factor

C4_Witness ==
    /\ pc = "done" /\ CT /\ self.scale_factor = 3 /\ T = 6
    /\ Len(out_feats) >= 2 /\ Len(out_feats[2]) = 2

\* C5: construction aborts and leaves no module when the architecture tuple
\* has not 3 entries, when (ConvTransformerBackbone) the window list has not
\* arch[2] + 1 entries, and when the input width is a list but the embedding
\* width is not a list of the same length; with a scalar input width no
\* projection is created.
C5_ConstructionAborts ==
    pc # "new" =>
        /\ Len(args.arch) # 3 => (pc = "aborted" /\ self = NoModule)
        /\ (args.cls = "convTransformer" /\ Len(args.arch) >= 3
              /\ Len(args.mha_win_size) # args.arch[3] + 1)
              => (pc = "aborted" /\ self = NoModule)
        /\ (args.n_in.isList
              /\ ~(args.n_embd.isList /\ Len(args.n_embd.v) = Len(args.n_in.v)))
              => (pc = "aborted" /\ self = NoModule)
        /\ (~args.n_in.isList /\ pc # "aborted")
              => (~self.hasProj /\ self.proj = <<>>)

C5_Witness ==
    /\ pc = "aborted" /\ args.cls = "convTransformer" /\ self = NoModule
    /\ Len(args.arch) = 3 /\ ~args.n_in.isList
    /\ Len(args.mha_win_size) # args.arch[3] + 1

\* C6: with absolute positional encoding, training forward fails the length
\* check exactly when T > max_len and otherwise adds the first T positions of
\* the table; inference forward never fails on length, interpolates the table
\* to length T when T >= max_len and slices its first T positions when
\* T < max_len, so the encoding added and level 0 have length T.  Without
\* absolute positional encoding no length check is made.
C6_PositionalLength ==
    args.cls = "convTransformer" =>
        /\ err # "RuntimeError"
        /\ err = "Reached max length." =>
              (pc = "failed" /\ self.use_abs_pe /\ training /\ T > self.max_len)
        /\ (pc \in PastPosEnc /\ self.use_abs_pe /\ training) =>
              /\ T <= self.max_len
              /\ pe_add = SubSeq(self.pos_embd, 1, T)
        /\ (pc \in PastPosEnc /\ self.use_abs_pe /\ ~training) =>
              /\ Len(pe_add) = T
              /\ T >= self.max_len => (Len(pe) = T /\ pe_add = pe)
              /\ T < self.max_len =>
                    (pe = self.pos_embd /\ pe_add = SubSeq(self.pos_embd, 1, T))
        /\ (pc \in PastPosEnc \ {"prep"}) => Len(out_feats[1]) = T

C6_Witness ==
    /\ pc = "done" /\ CT /\ self.use_abs_pe /\ ~training
    /\ T > self.max_len /\ Len(pe) = T /\ Len(pe_add) = T
    /\ Len(out_feats[1]) = T

\* C7: a forward call of a constructed ConvTransformerBackbone fails only by
\* the training-time length assertion, and the two long_attn stages that
\* forward invokes exist whenever forward has invoked them.
C7_OnlyLengthAssertionFails ==
    /\ (CT /\ pc = "failed") =>
          (err = "Reached max length." /\ self.use_abs_pe /\ training
             /\ T > self.max_len)
    /\ (CT /\ pc \in {"failed"} \cup PastLongMem) => self.long_attn >= 2

\* C8: in multi-stream mode the input channels are split into consecutive
\* groups of widths w1..wk, the j-th projection reads the j-th group only and
\* yields ej channels, the results are concatenated in order, and the width
\* e1 + ... + ek is the input and the output width of the embedding; in
\* single-stream mode the input reaches the embedding unchanged.
C8_MultiStreamProjection ==
    pc \in PastProject =>
        IF self.n_in.isList
        THEN LET w == args.n_in.v
                 e == args.n_embd.v
             IN /\ Len(xch) = Sum(e)
                /\ self.embd_in = Len(xch) /\ self.n_embd = Len(xch)
                /\ self.embd[1][1] = Len(xch) /\ self.embd[1][2] = Len(xch)
                /\ \A j \in 1..Len(w) : self.proj[j] = <<w[j], e[j]>>
                /\ \A k \in 1..Len(xch) :
                      LET j == xch[k].proj
                      IN /\ j \in 1..Len(w)
                         /\ Sum(SubSeq(e, 1, j - 1)) < k
                         /\ k <= Sum(SubSeq(e, 1, j))
                         /\ xch[k].src =
                               [i \in 1..w[j] |-> Sum(SubSeq(w, 1, j - 1)) + i]
        ELSE xch = InputChannels(args.n_in.v[1])

C8_Witness ==
    /\ pc = "done" /\ self.n_in.isList /\ Len(xch) = 4
    /\ xch[4].proj = 2 /\ xch[4].src = <<2, 3>>

\* C9: in each branch stage the feature and the mask are cut at the same
\* boundaries into 4 contiguous segments of lengths t//4, t//4, t//4 and
\* t - 3*(t//4) that cover every position once; each segment is attended
\* against f2 by the block stem[idx]; the concatenation restores the order and
\* the length t.
C9_SegmentSplit ==
    /\ (CT /\ pc \in {"stem", "cat"}) =>
          /\ \A j \in 1..3 : Len(xs[j]) = t \div 4 /\ Len(ms[j]) = t \div 4
          /\ Len(xs[4]) = t - 3 * (t \div 4) /\ Len(ms[4]) = t - 3 * (t \div 4)
          /\ Cat(xs) = Axis(t) /\ Cat(ms) = Axis(t)
          /\ Cat(xs) = x /\ Cat(ms) = mask
    /\ (CT /\ pc = "cat") =>
          /\ Len(calls) = 4
          /\ \A j \in 1..4 :
                /\ calls[j].block = "stem" /\ calls[j].i = idx
                /\ calls[j].kv = f2 /\ calls[j].kv_mask = f2_mask
    /\ (CT /\ pc = "convblock") =>
          /\ x = Axis(t) /\ mask = Axis(t)

C9_Witness ==
    /\ pc = "convblock" /\ CT /\ t = 7 /\ x = Axis(7)
    /\ Len(xs[1]) = 1 /\ Len(xs[4]) = 4 /\ Len(calls) = 4

\* C10: the long-memory summary (96 slots) with its mask and the second
\* auxiliary embedding with its mask are left unchanged by every step after
\* they are computed; each stage's aggregation receives that summary and each
\* segment attention receives that embedding; forward leaves the module, and
\* with it the learned memory and query tables, unchanged.
C10_SummaryReused ==
    [][ /\ pc \in InForward => self' = self
        /\ (CT /\ pc \in PastLongMem) =>
              /\ emp_q2' = emp_q2 /\ long_mask2' = long_mask2
              /\ f2' = f2 /\ f2_mask' = f2_mask
              /\ Len(emp_q2') = LongQuerySlots /\ Len(long_mask2') = LongQuerySlots
              /\ \A j \in 1..Len(calls') :
                    IF calls'[j].block = "aggr"
                    THEN calls'[j].kv = emp_q2 /\ calls'[j].kv_mask = long_mask2
                    ELSE calls'[j].kv = f2 /\ calls'[j].kv_mask = f2_mask
      ]_vars

C10_Witness ==
    /\ pc = "done" /\ CT /\ Len(out_feats) = 3
    /\ Len(emp_q2) = LongQuerySlots /\ Len(calls) = 5
    /\ calls[5].block = "aggr" /\ calls[5].kv = emp_q2

====
